---- MODULE Spec2Model ----
(***************************************************************************)
(* Colour conversions of matrix/colors.py: the numeric line-colour table,  *)
(* the nearest xterm-256 colour search ported from tmux, and the two       *)
(* adapters between HTML colour strings and WeeChat colour identifiers.    *)
(*                                                                         *)
(* Representation.  WeeChat colour identifiers (names such as "lightred"   *)
(* and decimal index strings such as "196") are TLA+ strings.  HTML colour *)
(* strings are sequences of one-character strings, so "#00005f" is         *)
(* <<"#","0","0","0","0","5","f">>; parsing has to decode the digits.      *)
(* Python's // is floor division, which is what \div is on the integers.   *)
(***************************************************************************)
EXTENDS Integers, Sequences, FiniteSets, TLC

VARIABLES
    pc,      \* "idle" between calls, "returned" after a call has finished
    fn,      \* name of the function that was called last
    arg,     \* its argument (a tuple for color_find_rgb)
    ret,     \* its return value
    raised,  \* "" or the name of the exception the call raised
    frame,   \* the local variables of color_find_rgb at its return
    prev     \* the call whose return value was passed on as arg, if any

vars == <<pc, fn, arg, ret, raised, frame, prev>>

-----------------------------------------------------------------------------
(* Bounds of the exploration *)

\* channel values 0..MaxSmall are all probed
MaxSmall == 12

\* every Stride-th channel value is probed
Stride == 16

-----------------------------------------------------------------------------
(* color_line_to_weechat *)

line_colors ==
    ("0" :> "white") @@ ("1" :> "black") @@ ("2" :> "blue") @@ ("3" :> "green") @@
    ("4" :> "lightred") @@ ("5" :> "red") @@ ("6" :> "magenta") @@ ("7" :> "brown") @@
    ("8" :> "yellow") @@ ("9" :> "lightgreen") @@ ("10" :> "cyan") @@ ("11" :> "lightcyan") @@
    ("12" :> "lightblue") @@ ("13" :> "lightmagenta") @@ ("14" :> "darkgray") @@ ("15" :> "gray") @@
    ("16" :> "52") @@ ("17" :> "94") @@ ("18" :> "100") @@ ("19" :> "58") @@
    ("20" :> "22") @@ ("21" :> "29") @@ ("22" :> "23") @@ ("23" :> "24") @@
    ("24" :> "17") @@ ("25" :> "54") @@ ("26" :> "53") @@ ("27" :> "89") @@
    ("28" :> "88") @@ ("29" :> "130") @@ ("30" :> "142") @@ ("31" :> "64") @@
    ("32" :> "28") @@ ("33" :> "35") @@ ("34" :> "30") @@ ("35" :> "25") @@
    ("36" :> "18") @@ ("37" :> "91") @@ ("38" :> "90") @@ ("39" :> "125") @@
    ("40" :> "124") @@ ("41" :> "166") @@ ("42" :> "184") @@ ("43" :> "106") @@
    ("44" :> "34") @@ ("45" :> "49") @@ ("46" :> "37") @@ ("47" :> "33") @@
    ("48" :> "19") @@ ("49" :> "129") @@ ("50" :> "127") @@ ("51" :> "161") @@
    ("52" :> "196") @@ ("53" :> "208") @@ ("54" :> "226") @@ ("55" :> "154") @@
    ("56" :> "46") @@ ("57" :> "86") @@ ("58" :> "51") @@ ("59" :> "75") @@
    ("60" :> "21") @@ ("61" :> "171") @@ ("62" :> "201") @@ ("63" :> "198") @@
    ("64" :> "203") @@ ("65" :> "215") @@ ("66" :> "227") @@ ("67" :> "191") @@
    ("68" :> "83") @@ ("69" :> "122") @@ ("70" :> "87") @@ ("71" :> "111") @@
    ("72" :> "63") @@ ("73" :> "177") @@ ("74" :> "207") @@ ("75" :> "205") @@
    ("76" :> "217") @@ ("77" :> "223") @@ ("78" :> "229") @@ ("79" :> "193") @@
    ("80" :> "157") @@ ("81" :> "158") @@ ("82" :> "159") @@ ("83" :> "153") @@
    ("84" :> "147") @@ ("85" :> "183") @@ ("86" :> "219") @@ ("87" :> "212") @@
    ("88" :> "16") @@ ("89" :> "233") @@ ("90" :> "235") @@ ("91" :> "237") @@
    ("92" :> "239") @@ ("93" :> "241") @@ ("94" :> "244") @@ ("95" :> "247") @@
    ("96" :> "250") @@ ("97" :> "254") @@ ("98" :> "231") @@ ("99" :> "default")

\* The result of a function call: a value or a raised exception.
Ok(v) == [raised |-> "", value |-> v]

Raise(e) == [raised |-> e, value |-> ""]

color_line_to_weechat(color_string) ==
    IF color_string \notin DOMAIN line_colors
    THEN Raise("AssertionError")
    ELSE Ok(line_colors[color_string])

-----------------------------------------------------------------------------
(* color_dist_sq, color_to_6cube, color_find_rgb *)

color_dist_sq(R, G, B, r, g, b) ==
    (R - r) * (R - r) + (G - g) * (G - g) + (B - b) * (B - b)

\* color_to_6cube with the cube intensities taken for the thresholds
color_to_6cube_intensity_thresholds(v) ==
    IF v < 95 THEN 0
    ELSE IF v < 135 THEN 1
    ELSE (v - 35) \div 40

\* color_to_6cube with the first comparison made inclusive
color_to_6cube_inclusive(v) ==
    IF v <= 48 THEN 0
    ELSE IF v < 114 THEN 1
    ELSE (v - 35) \div 40

color_to_6cube(v) ==
    IF v < 48 THEN 0
    ELSE IF v < 114 THEN 1
    ELSE (v - 35) \div 40

\* q2c is a Python list, indexed from 0
q2c(q) == <<0, 95, 135, 175, 215, 255>>[q + 1]

\* cube_idx without the offset of the 16 basic colours
cube_idx_no_offset(qr, qg, qb) == (36 * qr) + (6 * qg) + qb

\* cube_idx with the weights of red and green exchanged
cube_idx_swapped(qr, qg, qb) == 16 + (6 * qr) + (36 * qg) + qb

\* 16 + (36 * qr) + (6 * qg) + qb
cube_idx(qr, qg, qb) == 16 + (36 * qr) + (6 * qg) + qb

grey_avg(r, g, b) == (r + g + b) \div 3

grey_idx(avg) == IF avg > 238 THEN 23 ELSE (avg - 3) \div 10

\* grey without the offset of the first grey
grey_zero_based(idx) == 10 * idx

grey(idx) == 8 + (10 * idx)

\* closest_idx preferring the grey on equal distances
closest_idx_nonstrict(dgrey, d, gidx, qr, qg, qb) ==
    IF dgrey <= d THEN 232 + gidx ELSE cube_idx(qr, qg, qb)

\* "Is grey or 6x6x6 color closest?"
closest_idx(dgrey, d, gidx, qr, qg, qb) ==
    IF dgrey < d THEN 232 + gidx ELSE cube_idx(qr, qg, qb)

\* The locals of color_find_rgb when it returns; idx is the value returned.
\* early is TRUE when the function left through the exact-hit return, in
\* which case the grey locals were never assigned.
color_find_rgb_locals(r, g, b) ==
    LET qr == color_to_6cube(r)
        qg == color_to_6cube(g)
        qb == color_to_6cube(b)
        cr == q2c(qr)
        cg == q2c(qg)
        cb == q2c(qb)
    IN  IF cr = r /\ cg = g /\ cb = b
        THEN [early |-> TRUE, qr |-> qr, qg |-> qg, qb |-> qb,
              cr |-> cr, cg |-> cg, cb |-> cb,
              idx |-> cube_idx(qr, qg, qb)]
        ELSE LET avg  == grey_avg(r, g, b)
                 gidx == grey_idx(avg)
                 gr   == grey(gidx)
                 d    == color_dist_sq(cr, cg, cb, r, g, b)
                 dg   == color_dist_sq(gr, gr, gr, r, g, b)
             IN  [early |-> FALSE, qr |-> qr, qg |-> qg, qb |-> qb,
                  cr |-> cr, cg |-> cg, cb |-> cb,
                  grey_avg |-> avg, grey_idx |-> gidx, grey |-> gr,
                  d |-> d, dgrey |-> dg,
                  idx |-> closest_idx(dg, d, gidx, qr, qg, qb)]

color_find_rgb(r, g, b) == color_find_rgb_locals(r, g, b).idx

-----------------------------------------------------------------------------
(* webcolors.html5_parse_legacy_color: the HTML5 "rules for parsing a      *)
(* legacy colour value", for inputs without whitespace and of at most 128  *)
(* characters of the Basic Multilingual Plane.                             *)

HexValue ==
    ("0" :> 0) @@ ("1" :> 1) @@ ("2" :> 2) @@ ("3" :> 3) @@
    ("4" :> 4) @@ ("5" :> 5) @@ ("6" :> 6) @@ ("7" :> 7) @@
    ("8" :> 8) @@ ("9" :> 9) @@ ("a" :> 10) @@ ("b" :> 11) @@
    ("c" :> 12) @@ ("d" :> 13) @@ ("e" :> 14) @@ ("f" :> 15)

IsHexDigit(c) == c \in DOMAIN HexValue

\* int(s, 16) for a non-empty sequence of hex digits
RECURSIVE HexToInt(_)
HexToInt(s) ==
    IF Len(s) = 0 THEN 0
    ELSE 16 * HexToInt(SubSeq(s, 1, Len(s) - 1)) + HexValue[s[Len(s)]]

\* Some of the CSS3 colour keywords
CSS3_NAMES ==
    (<<"r", "e", "d">> :> <<255, 0, 0>>) @@
    (<<"n", "a", "v", "y">> :> <<0, 0, 128>>) @@
    (<<"s", "i", "l", "v", "e", "r">> :> <<192, 192, 192>>) @@
    (<<"o", "r", "a", "n", "g", "e">> :> <<255, 165, 0>>)

Transparent == <<"t", "r", "a", "n", "s", "p", "a", "r", "e", "n", "t">>

\* "While input's length is zero or not a multiple of three, append a 0"
RECURSIVE PadToThree(_)
PadToThree(s) ==
    IF Len(s) = 0 \/ Len(s) % 3 # 0 THEN PadToThree(Append(s, "0")) ELSE s

\* "While length is greater than two and the first character in each
\* component is a 0, remove that character"
RECURSIVE StripZeros(_)
StripZeros(comps) ==
    IF Len(comps[1]) > 2 /\ \A i \in 1..3 : comps[i][1] = "0"
    THEN StripZeros([i \in 1..3 |-> Tail(comps[i])])
    ELSE comps

html5_parse_legacy_color(input) ==
    IF input = <<>> THEN Raise("ValueError")
    ELSE IF input = Transparent THEN Raise("ValueError")
    ELSE IF input \in DOMAIN CSS3_NAMES THEN Ok(CSS3_NAMES[input])
    ELSE IF Len(input) = 4 /\ input[1] = "#"
            /\ \A i \in 2..4 : IsHexDigit(input[i])
    THEN Ok(<<HexValue[input[2]] * 17, HexValue[input[3]] * 17,
              HexValue[input[4]] * 17>>)
    ELSE
      LET s1 == IF input[1] = "#" THEN Tail(input) ELSE input
          s2 == [i \in 1..Len(s1) |-> IF IsHexDigit(s1[i]) THEN s1[i] ELSE "0"]
          s3 == PadToThree(s2)
          n  == Len(s3) \div 3
          split == <<SubSeq(s3, 1, n), SubSeq(s3, n + 1, 2 * n),
                     SubSeq(s3, 2 * n + 1, 3 * n)>>
          last8 == IF n > 8
                   THEN [i \in 1..3 |-> SubSeq(split[i], n - 7, n)]
                   ELSE split
          stripped == StripZeros(last8)
          two == [i \in 1..3 |->
                    IF Len(stripped[i]) > 2
                    THEN SubSeq(stripped[i], 1, 2) ELSE stripped[i]]
      IN  Ok(<<HexToInt(two[1]), HexToInt(two[2]), HexToInt(two[3])>>)

-----------------------------------------------------------------------------
(* color_html_to_weechat *)

\* Python's None, which is not a string
None == <<"<None>">>

\* the dictionary weechat_basic_colors of color_html_to_weechat
weechat_basic_colors_rgb ==
    (<<0, 0, 0>> :> "black") @@ (<<128, 0, 0>> :> "red") @@
    (<<0, 128, 0>> :> "green") @@ (<<128, 128, 0>> :> "brown") @@
    (<<0, 0, 128>> :> "blue") @@ (<<128, 0, 128>> :> "magenta") @@
    (<<0, 128, 128>> :> "cyan") @@ (<<192, 192, 192>> :> "default") @@
    (<<128, 128, 128>> :> "gray") @@ (<<255, 0, 0>> :> "lightred") @@
    (<<0, 255, 0>> :> "lightgreen") @@ (<<255, 255, 0>> :> "yellow") @@
    (<<0, 0, 255>> :> "lightblue") @@ (<<255, 0, 255>> :> "lightmagenta") @@
    (<<0, 255, 255>> :> "lightcyan") @@ (<<255, 255, 255>> :> "white")

\* str() of an integer
str(i) == ToString(i)

\* color_html_to_weechat without the lookup of the basic colours
color_html_to_weechat_no_basic(color) ==
    IF color = <<>> \/ color = None THEN Ok("")
    ELSE LET parsed == html5_parse_legacy_color(color)
             rgb_color == parsed.value
         IN  IF parsed.raised = "ValueError" THEN Ok("")
             ELSE Ok(str(color_find_rgb(rgb_color[1], rgb_color[2],
                                        rgb_color[3])))

color_html_to_weechat(color) ==
    IF color = <<>> \/ color = None THEN Ok("")
    ELSE LET parsed == html5_parse_legacy_color(color)
             rgb_color == parsed.value
         IN  IF parsed.raised = "ValueError" THEN Ok("")
             ELSE IF rgb_color \in DOMAIN weechat_basic_colors_rgb
             THEN Ok(weechat_basic_colors_rgb[rgb_color])
             ELSE Ok(str(color_find_rgb(rgb_color[1], rgb_color[2],
                                        rgb_color[3])))

-----------------------------------------------------------------------------
(* color_weechat_to_html *)

\* weechat_basic_colors with "default" given the index of "gray"
weechat_basic_colors_duplicate ==
    ("black" :> "0") @@ ("red" :> "1") @@ ("green" :> "2") @@ ("brown" :> "3") @@
    ("blue" :> "4") @@ ("magenta" :> "5") @@ ("cyan" :> "6") @@ ("default" :> "8") @@
    ("gray" :> "8") @@ ("lightred" :> "9") @@ ("lightgreen" :> "10") @@ ("yellow" :> "11") @@
    ("lightblue" :> "12") @@ ("lightmagenta" :> "13") @@ ("lightcyan" :> "14") @@ ("white" :> "15")

weechat_basic_colors ==
    ("black" :> "0") @@ ("red" :> "1") @@ ("green" :> "2") @@ ("brown" :> "3") @@
    ("blue" :> "4") @@ ("magenta" :> "5") @@ ("cyan" :> "6") @@ ("default" :> "7") @@
    ("gray" :> "8") @@ ("lightred" :> "9") @@ ("lightgreen" :> "10") @@ ("yellow" :> "11") @@
    ("lightblue" :> "12") @@ ("lightmagenta" :> "13") @@ ("lightcyan" :> "14") @@ ("white" :> "15")
hex_colors ==
    ("0" :> <<"#", "0", "0", "0", "0", "0", "0">>) @@ ("1" :> <<"#", "8", "0", "0", "0", "0", "0">>) @@
    ("2" :> <<"#", "0", "0", "8", "0", "0", "0">>) @@ ("3" :> <<"#", "8", "0", "8", "0", "0", "0">>) @@
    ("4" :> <<"#", "0", "0", "0", "0", "8", "0">>) @@ ("5" :> <<"#", "8", "0", "0", "0", "8", "0">>) @@
    ("6" :> <<"#", "0", "0", "8", "0", "8", "0">>) @@ ("7" :> <<"#", "c", "0", "c", "0", "c", "0">>) @@
    ("8" :> <<"#", "8", "0", "8", "0", "8", "0">>) @@ ("9" :> <<"#", "f", "f", "0", "0", "0", "0">>) @@
    ("10" :> <<"#", "0", "0", "f", "f", "0", "0">>) @@ ("11" :> <<"#", "f", "f", "f", "f", "0", "0">>) @@
    ("12" :> <<"#", "0", "0", "0", "0", "f", "f">>) @@ ("13" :> <<"#", "f", "f", "0", "0", "f", "f">>) @@
    ("14" :> <<"#", "0", "0", "f", "f", "f", "f">>) @@ ("15" :> <<"#", "f", "f", "f", "f", "f", "f">>) @@
    ("16" :> <<"#", "0", "0", "0", "0", "0", "0">>) @@ ("17" :> <<"#", "0", "0", "0", "0", "5", "f">>) @@
    ("18" :> <<"#", "0", "0", "0", "0", "8", "7">>) @@ ("19" :> <<"#", "0", "0", "0", "0", "a", "f">>) @@
    ("20" :> <<"#", "0", "0", "0", "0", "d", "7">>) @@ ("21" :> <<"#", "0", "0", "0", "0", "f", "f">>) @@
    ("22" :> <<"#", "0", "0", "5", "f", "0", "0">>) @@ ("23" :> <<"#", "0", "0", "5", "f", "5", "f">>) @@
    ("24" :> <<"#", "0", "0", "5", "f", "8", "7">>) @@ ("25" :> <<"#", "0", "0", "5", "f", "a", "f">>) @@
    ("26" :> <<"#", "0", "0", "5", "f", "d", "7">>) @@ ("27" :> <<"#", "0", "0", "5", "f", "f", "f">>) @@
    ("28" :> <<"#", "0", "0", "8", "7", "0", "0">>) @@ ("29" :> <<"#", "0", "0", "8", "7", "5", "f">>) @@
    ("30" :> <<"#", "0", "0", "8", "7", "8", "7">>) @@ ("31" :> <<"#", "0", "0", "8", "7", "a", "f">>) @@
    ("32" :> <<"#", "0", "0", "8", "7", "d", "7">>) @@ ("33" :> <<"#", "0", "0", "8", "7", "f", "f">>) @@
    ("34" :> <<"#", "0", "0", "a", "f", "0", "0">>) @@ ("35" :> <<"#", "0", "0", "a", "f", "5", "f">>) @@
    ("36" :> <<"#", "0", "0", "a", "f", "8", "7">>) @@ ("37" :> <<"#", "0", "0", "a", "f", "a", "f">>) @@
    ("38" :> <<"#", "0", "0", "a", "f", "d", "7">>) @@ ("39" :> <<"#", "0", "0", "a", "f", "f", "f">>) @@
    ("40" :> <<"#", "0", "0", "d", "7", "0", "0">>) @@ ("41" :> <<"#", "0", "0", "d", "7", "5", "f">>) @@
    ("42" :> <<"#", "0", "0", "d", "7", "8", "7">>) @@ ("43" :> <<"#", "0", "0", "d", "7", "a", "f">>) @@
    ("44" :> <<"#", "0", "0", "d", "7", "d", "7">>) @@ ("45" :> <<"#", "0", "0", "d", "7", "f", "f">>) @@
    ("46" :> <<"#", "0", "0", "f", "f", "0", "0">>) @@ ("47" :> <<"#", "0", "0", "f", "f", "5", "f">>) @@
    ("48" :> <<"#", "0", "0", "f", "f", "8", "7">>) @@ ("49" :> <<"#", "0", "0", "f", "f", "a", "f">>) @@
    ("50" :> <<"#", "0", "0", "f", "f", "d", "7">>) @@ ("51" :> <<"#", "0", "0", "f", "f", "f", "f">>) @@
    ("52" :> <<"#", "5", "f", "0", "0", "0", "0">>) @@ ("53" :> <<"#", "5", "f", "0", "0", "5", "f">>) @@
    ("54" :> <<"#", "5", "f", "0", "0", "8", "7">>) @@ ("55" :> <<"#", "5", "f", "0", "0", "a", "f">>) @@
    ("56" :> <<"#", "5", "f", "0", "0", "d", "7">>) @@ ("57" :> <<"#", "5", "f", "0", "0", "f", "f">>) @@
    ("58" :> <<"#", "5", "f", "5", "f", "0", "0">>) @@ ("59" :> <<"#", "5", "f", "5", "f", "5", "f">>) @@
    ("60" :> <<"#", "5", "f", "5", "f", "8", "7">>) @@ ("61" :> <<"#", "5", "f", "5", "f", "a", "f">>) @@
    ("62" :> <<"#", "5", "f", "5", "f", "d", "7">>) @@ ("63" :> <<"#", "5", "f", "5", "f", "f", "f">>) @@
    ("64" :> <<"#", "5", "f", "8", "7", "0", "0">>) @@ ("65" :> <<"#", "5", "f", "8", "7", "5", "f">>) @@
    ("66" :> <<"#", "5", "f", "8", "7", "8", "7">>) @@ ("67" :> <<"#", "5", "f", "8", "7", "a", "f">>) @@
    ("68" :> <<"#", "5", "f", "8", "7", "d", "7">>) @@ ("69" :> <<"#", "5", "f", "8", "7", "f", "f">>) @@
    ("70" :> <<"#", "5", "f", "a", "f", "0", "0">>) @@ ("71" :> <<"#", "5", "f", "a", "f", "5", "f">>) @@
    ("72" :> <<"#", "5", "f", "a", "f", "8", "7">>) @@ ("73" :> <<"#", "5", "f", "a", "f", "a", "f">>) @@
    ("74" :> <<"#", "5", "f", "a", "f", "d", "7">>) @@ ("75" :> <<"#", "5", "f", "a", "f", "f", "f">>) @@
    ("76" :> <<"#", "5", "f", "d", "7", "0", "0">>) @@ ("77" :> <<"#", "5", "f", "d", "7", "5", "f">>) @@
    ("78" :> <<"#", "5", "f", "d", "7", "8", "7">>) @@ ("79" :> <<"#", "5", "f", "d", "7", "a", "f">>) @@
    ("80" :> <<"#", "5", "f", "d", "7", "d", "7">>) @@ ("81" :> <<"#", "5", "f", "d", "7", "f", "f">>) @@
    ("82" :> <<"#", "5", "f", "f", "f", "0", "0">>) @@ ("83" :> <<"#", "5", "f", "f", "f", "5", "f">>) @@
    ("84" :> <<"#", "5", "f", "f", "f", "8", "7">>) @@ ("85" :> <<"#", "5", "f", "f", "f", "a", "f">>) @@
    ("86" :> <<"#", "5", "f", "f", "f", "d", "7">>) @@ ("87" :> <<"#", "5", "f", "f", "f", "f", "f">>) @@
    ("88" :> <<"#", "8", "7", "0", "0", "0", "0">>) @@ ("89" :> <<"#", "8", "7", "0", "0", "5", "f">>) @@
    ("90" :> <<"#", "8", "7", "0", "0", "8", "7">>) @@ ("91" :> <<"#", "8", "7", "0", "0", "a", "f">>) @@
    ("92" :> <<"#", "8", "7", "0", "0", "d", "7">>) @@ ("93" :> <<"#", "8", "7", "0", "0", "f", "f">>) @@
    ("94" :> <<"#", "8", "7", "5", "f", "0", "0">>) @@ ("95" :> <<"#", "8", "7", "5", "f", "5", "f">>) @@
    ("96" :> <<"#", "8", "7", "5", "f", "8", "7">>) @@ ("97" :> <<"#", "8", "7", "5", "f", "a", "f">>) @@
    ("98" :> <<"#", "8", "7", "5", "f", "d", "7">>) @@ ("99" :> <<"#", "8", "7", "5", "f", "f", "f">>) @@
    ("100" :> <<"#", "8", "7", "8", "7", "0", "0">>) @@ ("101" :> <<"#", "8", "7", "8", "7", "5", "f">>) @@
    ("102" :> <<"#", "8", "7", "8", "7", "8", "7">>) @@ ("103" :> <<"#", "8", "7", "8", "7", "a", "f">>) @@
    ("104" :> <<"#", "8", "7", "8", "7", "d", "7">>) @@ ("105" :> <<"#", "8", "7", "8", "7", "f", "f">>) @@
    ("106" :> <<"#", "8", "7", "a", "f", "0", "0">>) @@ ("107" :> <<"#", "8", "7", "a", "f", "5", "f">>) @@
    ("108" :> <<"#", "8", "7", "a", "f", "8", "7">>) @@ ("109" :> <<"#", "8", "7", "a", "f", "a", "f">>) @@
    ("110" :> <<"#", "8", "7", "a", "f", "d", "7">>) @@ ("111" :> <<"#", "8", "7", "a", "f", "f", "f">>) @@
    ("112" :> <<"#", "8", "7", "d", "7", "0", "0">>) @@ ("113" :> <<"#", "8", "7", "d", "7", "5", "f">>) @@
    ("114" :> <<"#", "8", "7", "d", "7", "8", "7">>) @@ ("115" :> <<"#", "8", "7", "d", "7", "a", "f">>) @@
    ("116" :> <<"#", "8", "7", "d", "7", "d", "7">>) @@ ("117" :> <<"#", "8", "7", "d", "7", "f", "f">>) @@
    ("118" :> <<"#", "8", "7", "f", "f", "0", "0">>) @@ ("119" :> <<"#", "8", "7", "f", "f", "5", "f">>) @@
    ("120" :> <<"#", "8", "7", "f", "f", "8", "7">>) @@ ("121" :> <<"#", "8", "7", "f", "f", "a", "f">>) @@
    ("122" :> <<"#", "8", "7", "f", "f", "d", "7">>) @@ ("123" :> <<"#", "8", "7", "f", "f", "f", "f">>) @@
    ("124" :> <<"#", "a", "f", "0", "0", "0", "0">>) @@ ("125" :> <<"#", "a", "f", "0", "0", "5", "f">>) @@
    ("126" :> <<"#", "a", "f", "0", "0", "8", "7">>) @@ ("127" :> <<"#", "a", "f", "0", "0", "a", "f">>) @@
    ("128" :> <<"#", "a", "f", "0", "0", "d", "7">>) @@ ("129" :> <<"#", "a", "f", "0", "0", "f", "f">>) @@
    ("130" :> <<"#", "a", "f", "5", "f", "0", "0">>) @@ ("131" :> <<"#", "a", "f", "5", "f", "5", "f">>) @@
    ("132" :> <<"#", "a", "f", "5", "f", "8", "7">>) @@ ("133" :> <<"#", "a", "f", "5", "f", "a", "f">>) @@
    ("134" :> <<"#", "a", "f", "5", "f", "d", "7">>) @@ ("135" :> <<"#", "a", "f", "5", "f", "f", "f">>) @@
    ("136" :> <<"#", "a", "f", "8", "7", "0", "0">>) @@ ("137" :> <<"#", "a", "f", "8", "7", "5", "f">>) @@
    ("138" :> <<"#", "a", "f", "8", "7", "8", "7">>) @@ ("139" :> <<"#", "a", "f", "8", "7", "a", "f">>) @@
    ("140" :> <<"#", "a", "f", "8", "7", "d", "7">>) @@ ("141" :> <<"#", "a", "f", "8", "7", "f", "f">>) @@
    ("142" :> <<"#", "a", "f", "a", "f", "0", "0">>) @@ ("143" :> <<"#", "a", "f", "a", "f", "5", "f">>) @@
    ("144" :> <<"#", "a", "f", "a", "f", "8", "7">>) @@ ("145" :> <<"#", "a", "f", "a", "f", "a", "f">>) @@
    ("146" :> <<"#", "a", "f", "a", "f", "d", "7">>) @@ ("147" :> <<"#", "a", "f", "a", "f", "f", "f">>) @@
    ("148" :> <<"#", "a", "f", "d", "7", "0", "0">>) @@ ("149" :> <<"#", "a", "f", "d", "7", "5", "f">>) @@
    ("150" :> <<"#", "a", "f", "d", "7", "8", "7">>) @@ ("151" :> <<"#", "a", "f", "d", "7", "a", "f">>) @@
    ("152" :> <<"#", "a", "f", "d", "7", "d", "7">>) @@ ("153" :> <<"#", "a", "f", "d", "7", "f", "f">>) @@
    ("154" :> <<"#", "a", "f", "f", "f", "0", "0">>) @@ ("155" :> <<"#", "a", "f", "f", "f", "5", "f">>) @@
    ("156" :> <<"#", "a", "f", "f", "f", "8", "7">>) @@ ("157" :> <<"#", "a", "f", "f", "f", "a", "f">>) @@
    ("158" :> <<"#", "a", "f", "f", "f", "d", "7">>) @@ ("159" :> <<"#", "a", "f", "f", "f", "f", "f">>) @@
    ("160" :> <<"#", "d", "7", "0", "0", "0", "0">>) @@ ("161" :> <<"#", "d", "7", "0", "0", "5", "f">>) @@
    ("162" :> <<"#", "d", "7", "0", "0", "8", "7">>) @@ ("163" :> <<"#", "d", "7", "0", "0", "a", "f">>) @@
    ("164" :> <<"#", "d", "7", "0", "0", "d", "7">>) @@ ("165" :> <<"#", "d", "7", "0", "0", "f", "f">>) @@
    ("166" :> <<"#", "d", "7", "5", "f", "0", "0">>) @@ ("167" :> <<"#", "d", "7", "5", "f", "5", "f">>) @@
    ("168" :> <<"#", "d", "7", "5", "f", "8", "7">>) @@ ("169" :> <<"#", "d", "7", "5", "f", "a", "f">>) @@
    ("170" :> <<"#", "d", "7", "5", "f", "d", "7">>) @@ ("171" :> <<"#", "d", "7", "5", "f", "f", "f">>) @@
    ("172" :> <<"#", "d", "7", "8", "7", "0", "0">>) @@ ("173" :> <<"#", "d", "7", "8", "7", "5", "f">>) @@
    ("174" :> <<"#", "d", "7", "8", "7", "8", "7">>) @@ ("175" :> <<"#", "d", "7", "8", "7", "a", "f">>) @@
    ("176" :> <<"#", "d", "7", "8", "7", "d", "7">>) @@ ("177" :> <<"#", "d", "7", "8", "7", "f", "f">>) @@
    ("178" :> <<"#", "d", "7", "a", "f", "0", "0">>) @@ ("179" :> <<"#", "d", "7", "a", "f", "5", "f">>) @@
    ("180" :> <<"#", "d", "7", "a", "f", "8", "7">>) @@ ("181" :> <<"#", "d", "7", "a", "f", "a", "f">>) @@
    ("182" :> <<"#", "d", "7", "a", "f", "d", "7">>) @@ ("183" :> <<"#", "d", "7", "a", "f", "f", "f">>) @@
    ("184" :> <<"#", "d", "7", "d", "7", "0", "0">>) @@ ("185" :> <<"#", "d", "7", "d", "7", "5", "f">>) @@
    ("186" :> <<"#", "d", "7", "d", "7", "8", "7">>) @@ ("187" :> <<"#", "d", "7", "d", "7", "a", "f">>) @@
    ("188" :> <<"#", "d", "7", "d", "7", "d", "7">>) @@ ("189" :> <<"#", "d", "7", "d", "7", "f", "f">>) @@
    ("190" :> <<"#", "d", "7", "f", "f", "0", "0">>) @@ ("191" :> <<"#", "d", "7", "f", "f", "5", "f">>) @@
    ("192" :> <<"#", "d", "7", "f", "f", "8", "7">>) @@ ("193" :> <<"#", "d", "7", "f", "f", "a", "f">>) @@
    ("194" :> <<"#", "d", "7", "f", "f", "d", "7">>) @@ ("195" :> <<"#", "d", "7", "f", "f", "f", "f">>) @@
    ("196" :> <<"#", "f", "f", "0", "0", "0", "0">>) @@ ("197" :> <<"#", "f", "f", "0", "0", "5", "f">>) @@
    ("198" :> <<"#", "f", "f", "0", "0", "8", "7">>) @@ ("199" :> <<"#", "f", "f", "0", "0", "a", "f">>) @@
    ("200" :> <<"#", "f", "f", "0", "0", "d", "7">>) @@ ("201" :> <<"#", "f", "f", "0", "0", "f", "f">>) @@
    ("202" :> <<"#", "f", "f", "5", "f", "0", "0">>) @@ ("203" :> <<"#", "f", "f", "5", "f", "5", "f">>) @@
    ("204" :> <<"#", "f", "f", "5", "f", "8", "7">>) @@ ("205" :> <<"#", "f", "f", "5", "f", "a", "f">>) @@
    ("206" :> <<"#", "f", "f", "5", "f", "d", "7">>) @@ ("207" :> <<"#", "f", "f", "5", "f", "f", "f">>) @@
    ("208" :> <<"#", "f", "f", "8", "7", "0", "0">>) @@ ("209" :> <<"#", "f", "f", "8", "7", "5", "f">>) @@
    ("210" :> <<"#", "f", "f", "8", "7", "8", "7">>) @@ ("211" :> <<"#", "f", "f", "8", "7", "a", "f">>) @@
    ("212" :> <<"#", "f", "f", "8", "7", "d", "7">>) @@ ("213" :> <<"#", "f", "f", "8", "7", "f", "f">>) @@
    ("214" :> <<"#", "f", "f", "a", "f", "0", "0">>) @@ ("215" :> <<"#", "f", "f", "a", "f", "5", "f">>) @@
    ("216" :> <<"#", "f", "f", "a", "f", "8", "7">>) @@ ("217" :> <<"#", "f", "f", "a", "f", "a", "f">>) @@
    ("218" :> <<"#", "f", "f", "a", "f", "d", "7">>) @@ ("219" :> <<"#", "f", "f", "a", "f", "f", "f">>) @@
    ("220" :> <<"#", "f", "f", "d", "7", "0", "0">>) @@ ("221" :> <<"#", "f", "f", "d", "7", "5", "f">>) @@
    ("222" :> <<"#", "f", "f", "d", "7", "8", "7">>) @@ ("223" :> <<"#", "f", "f", "d", "7", "a", "f">>) @@
    ("224" :> <<"#", "f", "f", "d", "7", "d", "7">>) @@ ("225" :> <<"#", "f", "f", "d", "7", "f", "f">>) @@
    ("226" :> <<"#", "f", "f", "f", "f", "0", "0">>) @@ ("227" :> <<"#", "f", "f", "f", "f", "5", "f">>) @@
    ("228" :> <<"#", "f", "f", "f", "f", "8", "7">>) @@ ("229" :> <<"#", "f", "f", "f", "f", "a", "f">>) @@
    ("230" :> <<"#", "f", "f", "f", "f", "d", "7">>) @@ ("231" :> <<"#", "f", "f", "f", "f", "f", "f">>) @@
    ("232" :> <<"#", "0", "8", "0", "8", "0", "8">>) @@ ("233" :> <<"#", "1", "2", "1", "2", "1", "2">>) @@
    ("234" :> <<"#", "1", "c", "1", "c", "1", "c">>) @@ ("235" :> <<"#", "2", "6", "2", "6", "2", "6">>) @@
    ("236" :> <<"#", "3", "0", "3", "0", "3", "0">>) @@ ("237" :> <<"#", "3", "a", "3", "a", "3", "a">>) @@
    ("238" :> <<"#", "4", "4", "4", "4", "4", "4">>) @@ ("239" :> <<"#", "4", "e", "4", "e", "4", "e">>) @@
    ("240" :> <<"#", "5", "8", "5", "8", "5", "8">>) @@ ("241" :> <<"#", "6", "2", "6", "2", "6", "2">>) @@
    ("242" :> <<"#", "6", "c", "6", "c", "6", "c">>) @@ ("243" :> <<"#", "7", "6", "7", "6", "7", "6">>) @@
    ("244" :> <<"#", "8", "0", "8", "0", "8", "0">>) @@ ("245" :> <<"#", "8", "a", "8", "a", "8", "a">>) @@
    ("246" :> <<"#", "9", "4", "9", "4", "9", "4">>) @@ ("247" :> <<"#", "9", "e", "9", "e", "9", "e">>) @@
    ("248" :> <<"#", "a", "8", "a", "8", "a", "8">>) @@ ("249" :> <<"#", "b", "2", "b", "2", "b", "2">>) @@
    ("250" :> <<"#", "b", "c", "b", "c", "b", "c">>) @@ ("251" :> <<"#", "c", "6", "c", "6", "c", "6">>) @@
    ("252" :> <<"#", "d", "0", "d", "0", "d", "0">>) @@ ("253" :> <<"#", "d", "a", "d", "a", "d", "a">>) @@
    ("254" :> <<"#", "e", "4", "e", "4", "e", "4">>) @@ ("255" :> <<"#", "e", "e", "e", "e", "e", "e">>)

\* hex_colors[key], a KeyError when the key is missing
hex_lookup(key) ==
    IF key \in DOMAIN hex_colors THEN Ok(hex_colors[key]) ELSE Raise("KeyError")

color_weechat_to_html(color) ==
    IF color \in DOMAIN weechat_basic_colors
    THEN hex_lookup(weechat_basic_colors[color])
    ELSE hex_lookup(color)

-----------------------------------------------------------------------------
(* The inputs the calls are explored with *)

\* the channel values around which color_to_6cube and grey_idx change,
\* the cube intensities and the basic-colour intensities
Anchors ==
    {47, 48, 95, 113, 114, 115, 128, 135, 154, 155, 175, 192, 194, 195,
     215, 234, 235, 238, 239, 255}

Probe == {v \in 0..255 : v <= MaxSmall \/ v % Stride = 0 \/ v \in Anchors}

LineCodes == {str(i) : i \in 0..100} \cup {"", "default"}

HexProbe == {"0", "5", "8", "c", "f"}

HtmlInputs ==
    {None, <<>>, Transparent}
    \cup DOMAIN CSS3_NAMES
    \cup {<<"#", a, b, c>> : a \in HexProbe, b \in HexProbe, c \in HexProbe}
    \cup {<<"#", a, b, c, d, e, f>> :
            a \in HexProbe, b \in {"0", "f"}, c \in HexProbe,
            d \in {"0", "f"}, e \in HexProbe, f \in {"0", "f"}}
    \cup {<<"#", a, b, a, b, c, d>> :
            a \in HexProbe, b \in HexProbe, c \in HexProbe, d \in HexProbe}
    \cup {<<"#", "1", "2", "3", "4", "5", "6">>,
          <<"#", "1", "2", "3", "4", "5">>,
          <<"f", "f", "f">>, <<"#", "f", "f">>, <<"z", "z">>,
          <<"#">>, <<"#", "0", "0", "0", "0", "f", "f", "0", "0", "8">>}

WeechatInputs ==
    DOMAIN weechat_basic_colors \cup {str(i) : i \in 0..256}
    \cup {"darkgray", "", "#ff0000"}

NoCall == [fn |-> "", arg |-> <<>>]

-----------------------------------------------------------------------------
(* The calls *)

Init ==
    /\ pc = "idle"
    /\ fn = ""
    /\ arg = <<>>
    /\ ret = <<>>
    /\ raised = ""
    /\ frame = <<>>
    /\ prev = NoCall

\* What a finished call leaves behind
Returned(f, a, result, locals, from) ==
    /\ pc' = "returned"
    /\ fn' = f
    /\ arg' = a
    /\ ret' = result.value
    /\ raised' = result.raised
    /\ frame' = locals
    /\ prev' = from

Call_color_line_to_weechat ==
    /\ pc = "idle"
    /\ \E color_string \in LineCodes :
         Returned("color_line_to_weechat", color_string,
                  color_line_to_weechat(color_string), <<>>, NoCall)

Call_color_to_6cube ==
    /\ pc = "idle"
    /\ \E v \in 0..255 :
         Returned("color_to_6cube", v, Ok(color_to_6cube(v)), <<>>, NoCall)

Call_color_find_rgb ==
    /\ pc = "idle"
    /\ \E r \in Probe, g \in Probe, b \in Probe :
         Returned("color_find_rgb", <<r, g, b>>, Ok(color_find_rgb(r, g, b)),
                  color_find_rgb_locals(r, g, b), NoCall)

Call_color_html_to_weechat ==
    /\ pc = "idle"
    /\ \E color \in HtmlInputs :
         Returned("color_html_to_weechat", color,
                  color_html_to_weechat(color), <<>>, NoCall)

Call_color_weechat_to_html ==
    /\ pc = "idle"
    /\ \E color \in WeechatInputs :
         Returned("color_weechat_to_html", color,
                  color_weechat_to_html(color), <<>>, NoCall)

\* A caller hands the identifier it got from color_line_to_weechat or
\* color_html_to_weechat to color_weechat_to_html.
Pass_to_color_weechat_to_html ==
    /\ pc = "returned"
    /\ fn \in {"color_line_to_weechat", "color_html_to_weechat"}
    /\ raised = ""
    /\ Returned("color_weechat_to_html", ret, color_weechat_to_html(ret),
                <<>>, [fn |-> fn, arg |-> arg])

\* A caller hands the hex string it got from color_weechat_to_html to
\* color_html_to_weechat.
Pass_to_color_html_to_weechat ==
    /\ pc = "returned"
    /\ fn = "color_weechat_to_html"
    /\ raised = ""
    /\ Returned("color_html_to_weechat", ret, color_html_to_weechat(ret),
                <<>>, [fn |-> fn, arg |-> arg])

\* The caller is done with the result.
Done ==
    /\ pc = "returned"
    /\ pc' = "idle"
    /\ fn' = ""
    /\ arg' = <<>>
    /\ ret' = <<>>
    /\ raised' = ""
    /\ frame' = <<>>
    /\ prev' = NoCall

Next ==
    \/ Call_color_line_to_weechat
    \/ Call_color_to_6cube
    \/ Call_color_find_rgb
    \/ Call_color_html_to_weechat
    \/ Call_color_weechat_to_html
    \/ Pass_to_color_weechat_to_html
    \/ Pass_to_color_html_to_weechat
    \/ Done

Spec == Init /\ [][Next]_vars

-----------------------------------------------------------------------------
(* Properties *)

InFindRgb == pc = "returned" /\ fn = "color_find_rgb"

\* The palette color_find_rgb searches, by its docstring: the 6x6x6 cube at
\* 16..231 and the greys 8, 18, ... 238 at 232..255.
xterm_palette ==
    [i \in 16..255 |->
        IF i < 232
        THEN LET L == <<0, 95, 135, 175, 215, 255>>
             IN  <<L[((i - 16) \div 36) + 1], L[(((i - 16) \div 6) % 6) + 1],
                   L[((i - 16) % 6) + 1]>>
        ELSE <<8 + 10 * (i - 232), 8 + 10 * (i - 232), 8 + 10 * (i - 232)>>]

\* squared RGB distance between two triplets
DistSq(p, q) ==
    (p[1] - q[1]) * (p[1] - q[1]) + (p[2] - q[2]) * (p[2] - q[2])
    + (p[3] - q[3]) * (p[3] - q[3])

\* C1: for every RGB triplet color_find_rgb returns, without raising, an
\* index in 16..255, and an index of at least 232 when it chose the grey.
C1_IndexInRange ==
    InFindRgb =>
        /\ raised = ""
        /\ ret \in 16..255
        /\ (~frame.early /\ frame.dgrey < frame.d) => ret \in 232..255

C1_Witness ==
    /\ InFindRgb
    /\ ~frame.early
    /\ frame.dgrey < frame.d
    /\ ret = 255

\* C2: the palette colour of the index color_find_rgb returns is a closest
\* entry of the 240-entry palette: no entry is strictly closer to (r,g,b).
C2_Nearest ==
    InFindRgb =>
        /\ ret \in DOMAIN xterm_palette
        /\ LET found == DistSq(xterm_palette[ret], arg)
           IN  \A i \in 16..255 : found <= DistSq(xterm_palette[i], arg)

C2_Witness ==
    /\ InFindRgb
    /\ ~frame.early
    /\ ret \in 232..255
    /\ frame.dgrey > 0
    /\ frame.d > frame.dgrey

\* C3 as stated: color_to_6cube maps 0..47 to 0, 48..113 to 1 and 114..255
\* into 2..5, so that 114 is mapped to 2.
C3_Original ==
    (pc = "returned" /\ fn = "color_to_6cube") =>
        /\ arg \in 0..47 => ret = 0
        /\ arg \in 48..113 => ret = 1
        /\ arg \in 114..255 => ret \in 2..5
        /\ arg = 114 => ret = 2

\* C3 amended: color_to_6cube maps 0..47 to 0, 48..114 to 1 and 115..255
\* into 2..5; 0 and 47 go to 0, 48, 113 and 114 to 1, 115 to 2, 255 to 5.
C3_Amended ==
    (pc = "returned" /\ fn = "color_to_6cube") =>
        /\ arg \in 0..47 => ret = 0
        /\ arg \in 48..114 => ret = 1
        /\ arg \in 115..255 => ret \in 2..5
        /\ arg = 115 => ret = 2
        /\ arg = 255 => ret = 5

C3_Witness ==
    /\ pc = "returned"
    /\ fn = "color_to_6cube"
    /\ arg = 114
    /\ ret = 1

\* C4: called with the exact intensities of the cube coordinate (qr,qg,qb),
\* color_find_rgb returns 16 + 36*qr + 6*qg + qb, never a grey.
C4_ExactCubeHit ==
    InFindRgb =>
        \A qr \in 0..5, qg \in 0..5, qb \in 0..5 :
            LET L == <<0, 95, 135, 175, 215, 255>>
            IN  arg = <<L[qr + 1], L[qg + 1], L[qb + 1]>>
                    => ret = 16 + 36 * qr + 6 * qg + qb

C4_Witness ==
    /\ InFindRgb
    /\ arg = <<95, 135, 255>>
    /\ ret = 69

\* C5: for a triplet that is not an exact cube colour, color_find_rgb
\* returns 232 + grey_idx exactly when the candidate grey is strictly closer
\* than the quantized cube colour; on equal distances it returns the cube
\* index.
C5_StrictlyCloserGrey ==
    (InFindRgb /\ ~frame.early) =>
        LET g == <<frame.grey, frame.grey, frame.grey>>
            c == <<frame.cr, frame.cg, frame.cb>>
            cube == 16 + 36 * frame.qr + 6 * frame.qg + frame.qb
        IN  /\ ret = 232 + frame.grey_idx <=> DistSq(g, arg) < DistSq(c, arg)
            /\ ret # 232 + frame.grey_idx => ret = cube
            /\ DistSq(g, arg) = DistSq(c, arg) => ret = cube

\* a triplet equidistant from its cube colour and its grey
C5_Witness ==
    /\ InFindRgb
    /\ ~frame.early
    /\ frame.grey_idx \in 0..23
    /\ frame.dgrey = frame.d
    /\ ret = 16 + 36 * frame.qr + 6 * frame.qg + frame.qb

\* C6: color_html_to_weechat raises nothing; it returns "" for an empty,
\* absent or unparsable colour, the basic colour's name when the parsed
\* triplet is one of the 16 basic RGB values ("#ff0000" gives "lightred"),
\* and otherwise the decimal string of color_find_rgb of the triplet.
C6_CaseRule ==
    (pc = "returned" /\ fn = "color_html_to_weechat") =>
        /\ raised = ""
        /\ IF arg = <<>> \/ arg = None
           THEN ret = ""
           ELSE LET p == html5_parse_legacy_color(arg)
                IN  IF p.raised # ""
                    THEN ret = ""
                    ELSE IF p.value \in DOMAIN weechat_basic_colors_rgb
                    THEN ret = weechat_basic_colors_rgb[p.value]
                    ELSE ret = str(color_find_rgb(p.value[1], p.value[2],
                                                  p.value[3]))
        /\ arg = <<"#", "f", "f", "0", "0", "0", "0">> => ret = "lightred"

C6_Witness ==
    /\ pc = "returned"
    /\ fn = "color_html_to_weechat"
    /\ arg = <<"#", "f", "f", "0", "0", "0", "0">>
    /\ ret = "lightred"

BasicNames ==
    {"black", "red", "green", "brown", "blue", "magenta", "cyan", "default",
     "gray", "lightred", "lightgreen", "yellow", "lightblue", "lightmagenta",
     "lightcyan", "white"}

IndexStrings(lo, hi) == {str(i) : i \in lo..hi}

\* the key of hex_colors a successful color_weechat_to_html(arg) looked up
HexKey ==
    IF arg \in DOMAIN weechat_basic_colors
    THEN weechat_basic_colors[arg] ELSE arg

InWeechatToHtml ==
    pc = "returned" /\ fn = "color_weechat_to_html" /\ raised = ""

\* both tables are defined on exactly their domain, and the name table is
\* one-to-one
TablesTotal ==
    /\ DOMAIN weechat_basic_colors = BasicNames
    /\ DOMAIN hex_colors = IndexStrings(0, 255)
    /\ \A m \in BasicNames, n \in BasicNames :
          weechat_basic_colors[m] = weechat_basic_colors[n] => m = n

\* C7 as stated: the name table and the hex table of color_weechat_to_html
\* are total on their domains and one-to-one: no two distinct keys of a
\* table have the same value.
C7_Original ==
    InWeechatToHtml =>
        /\ TablesTotal
        /\ \A k \in DOMAIN hex_colors : hex_colors[k] = ret => k = HexKey

\* C7 amended: the name table is total on the 16 basic names and one-to-one;
\* the hex table is total on "0".."255" and one-to-one on "0".."15" and on
\* "16".."255" separately, but not on the whole domain: a basic index and
\* an extended index may share a value, as "0" and "16" share #000000.
C7_Amended ==
    InWeechatToHtml =>
        /\ TablesTotal
        /\ \A k \in DOMAIN hex_colors :
              (hex_colors[k] = ret /\ k # HexKey) =>
                  (k \in IndexStrings(0, 15)) # (HexKey \in IndexStrings(0, 15))

C7_Witness ==
    /\ InWeechatToHtml
    /\ arg = "16"
    /\ ret = hex_colors["0"]

\* C8: when color_find_rgb reaches the grey computation, grey_idx is in
\* 0..23 and the candidate grey 8 + 10*grey_idx is in 8..238.
C8_GreyIndexInRamp ==
    (InFindRgb /\ ~frame.early) =>
        /\ frame.grey_idx \in 0..23
        /\ frame.grey \in 8..238

\* C9: color_weechat_to_html succeeds on what color_line_to_weechat
\* returns for the codes "0".."99" and on every non-empty result of
\* color_html_to_weechat.
C9_NoLookupMiss ==
    (pc = "returned" /\ fn = "color_weechat_to_html") =>
        /\ (prev.fn = "color_line_to_weechat"
              /\ prev.arg \in IndexStrings(0, 99)) => raised = ""
        /\ (prev.fn = "color_html_to_weechat" /\ arg # "") => raised = ""

\* C10: color_html_to_weechat(color_weechat_to_html(n)) = n for each of the
\* 16 basic names n and for each index string n of 16..255 whose hex value
\* is not the hex value of a basic colour.
C10_RoundTrip ==
    (/\ pc = "returned"
     /\ fn = "color_html_to_weechat"
     /\ prev.fn = "color_weechat_to_html"
     /\ \/ prev.arg \in BasicNames
        \/ /\ prev.arg \in IndexStrings(16, 255)
           /\ \A k \in IndexStrings(0, 15) : hex_colors[k] # arg)
    => (raised = "" /\ ret = prev.arg)

C10_Witness ==
    /\ pc = "returned"
    /\ fn = "color_html_to_weechat"
    /\ prev = [fn |-> "color_weechat_to_html", arg |-> "232"]
    /\ ret = "232"

====
